---- MODULE Spec2Model ----
(***************************************************************************)
(* Model of the opus_subtitles extraction pipeline: the string helpers of  *)
(* utils.py, the XML document accessors and the ZIP catalog of zipped.py,  *)
(* and the multiprocessing run of ZippedSubtitles.iter_xml_files consumed  *)
(* by extract_subtitles.                                                   *)
(*                                                                         *)
(* A Python str is a sequence of one-character strings.  A ZIP entry path  *)
(* ".../<imdb_id>/<doc_id>.<ext>" is a record of its last two segments;    *)
(* ids are single digits, for which string order is numeric order.         *)
(***************************************************************************)
EXTENDS Integers, Sequences, FiniteSets, TLC

VARIABLES
    archive,        \* what from_zip points at: "zip", "missing" or "not_zip"
    namelist,       \* ZipFile.namelist(): the entry paths in storage order
    origin_lang,    \* local of iter_xml_files: the archive's code, or "None"
    distinct_title, original_only, cased_only, deduplicate,
    batch_size, nb_workers,     \* arguments of iter_xml_files
    pc,             \* position of the iter_xml_files generator
    error,          \* the exception that ended the run, "" when none
    nb_xml_files, nb_batches,   \* locals of iter_xml_files
    pool,           \* number of processes of mp.Pool, 0 before it is created
    xml_files,      \* local of _iter_batch_xml_files (once listed)
    gen,            \* position of the _iter_batch_xml_files generator
    fed,            \* number of batches the pool's task feeder has pulled
    taskqueue,      \* batches waiting for a worker
    workers,        \* the batches held by the pool's worker processes
    outqueue,       \* results of parse_batch, in completion order
    result_batch,   \* the result being yielded by iter_xml_files
    pbar,           \* number of pbar.update(1) calls
    emitted,        \* tuples yielded so far, in order
    written,        \* .txt files written by extract_subtitles
    collected,      \* numbers of the batches whose result imap_unordered gave
    call, arg, ret  \* a call of one pure helper: its name, input and result

engine_vars == <<archive, namelist, distinct_title, original_only,
                 cased_only, deduplicate, batch_size, nb_workers, pc, error,
                 origin_lang, nb_xml_files, nb_batches, pool, xml_files, gen, fed,
                 taskqueue, workers, outqueue, result_batch, pbar, emitted,
                 written, collected>>
vars == <<engine_vars, call, arg, ret>>

---------------------------------------------------------------------------
(* Bounds of the model.                                                    *)
MaxEntries == 3      \* entries stored in an archive
MaxBatchSize == 2    \* largest batch_size argument
MaxWorkers == 2      \* largest nb_workers argument
MaxStrLen == 3       \* longest string given to is_cased
MaxItems == 5        \* longest list given to iter_batch
MaxLines == 4        \* longest list of .//s texts given to get_lines
CpuCount == 1        \* what mp.cpu_count() returns on the modelled host

---------------------------------------------------------------------------
(* Python str methods.                                                     *)
UpperChars == {"A"}
LowerChars == {"a"}
SpaceChars == {" "}
Chars == UpperChars \cup LowerChars \cup SpaceChars \cup {"1"}

\* str.isupper(): at least one cased character and no lowercase one
isupper(s) ==
    /\ \E i \in DOMAIN s : s[i] \in UpperChars
    /\ \A i \in DOMAIN s : s[i] \notin LowerChars

\* str.islower(): at least one cased character and no uppercase one
islower(s) ==
    /\ \E i \in DOMAIN s : s[i] \in LowerChars
    /\ \A i \in DOMAIN s : s[i] \notin UpperChars

RECURSIVE lstrip(_)
lstrip(s) ==
    IF s # <<>> /\ Head(s) \in SpaceChars THEN lstrip(Tail(s)) ELSE s

RECURSIVE rstrip(_)
rstrip(s) ==
    IF s # <<>> /\ s[Len(s)] \in SpaceChars
    THEN rstrip(SubSeq(s, 1, Len(s) - 1))
    ELSE s

\* str.strip()
strip(s) == rstrip(lstrip(s))

\* sep.join(texts)
RECURSIVE join(_, _)
join(sep, texts) ==
    IF texts = <<>> THEN <<>>
    ELSE IF Len(texts) = 1 THEN texts[1]
    ELSE texts[1] \o sep \o join(sep, Tail(texts))

---------------------------------------------------------------------------
(* utils.py                                                                *)

\* list(filter(None, map(lambda x: x.strip(), my_texts)))
strip_whitespaces(my_texts) ==
    SelectSeq([i \in DOMAIN my_texts |-> strip(my_texts[i])],
              LAMBDA x : x # <<>>)

\* Keeps the first occurrence of each text, wherever it repeats
RECURSIVE deduplicate_everywhere(_)
deduplicate_everywhere(my_texts) ==
    IF my_texts = <<>> THEN <<>>
    ELSE <<Head(my_texts)>> \o
         deduplicate_everywhere(SelectSeq(Tail(my_texts),
                                          LAMBDA x : x # Head(my_texts)))

\* list(map(itemgetter(0), groupby(my_texts))): the first of each run
RECURSIVE deduplicate_consecutive(_)
deduplicate_consecutive(my_texts) ==
    IF Len(my_texts) <= 1 THEN my_texts
    ELSE IF my_texts[1] = my_texts[2]
         THEN deduplicate_consecutive(Tail(my_texts))
         ELSE <<my_texts[1]>> \o deduplicate_consecutive(Tail(my_texts))

is_cased(my_text) == ~(isupper(my_text) \/ islower(my_text))

\* The body of iter_batch's for loop, over the rest of the iterable, with
\* the batch being filled; the result is the sequence of yielded batches.
RECURSIVE iter_batch_loop(_, _, _)
iter_batch_loop(iterable, batch, size) ==
    IF iterable = <<>>
    THEN IF batch # <<>> THEN <<batch>> ELSE <<>>
    ELSE LET filled == Append(batch, Head(iterable)) IN
         IF Len(filled) = size
         THEN <<filled>> \o iter_batch_loop(Tail(iterable), <<>>, size)
         ELSE iter_batch_loop(Tail(iterable), filled, size)

RECURSIVE iter_batch_drop_tail(_, _, _)
iter_batch_drop_tail(iterable, batch, size) ==
    IF iterable = <<>>
    THEN <<>>
    ELSE LET filled == Append(batch, Head(iterable)) IN
         IF Len(filled) = size
         THEN <<filled>> \o iter_batch_drop_tail(Tail(iterable), <<>>, size)
         ELSE iter_batch_drop_tail(Tail(iterable), filled, size)

iter_batch_dropping(iterable, size) == iter_batch_drop_tail(iterable, <<>>, size)

iter_batch(iterable, size) == iter_batch_loop(iterable, <<>>, size)

---------------------------------------------------------------------------
(* The archive: entry paths and the bytes stored under each.               *)

Path(imdb_id, doc_id, ext) == [imdb_id |-> imdb_id, doc_id |-> doc_id, ext |-> ext]

\* The entries an archive may hold: three documents of title 7, one of
\* title 9 and one file that is no XML document.
PathUniverse ==
    {Path(7, 1, "xml"), Path(7, 2, "xml"), Path(7, 3, "xml"),
     Path(9, 5, "xml"), Path(9, 5, "txt")}

\* zf.read(xml_file): the payload stored under each path.  syntax is what
\* libxml2 makes of the bytes: "ok" (well-formed), "partial" (malformed,
\* the recovering parser salvages the nodes given here) or "fatal"
\* (malformed, etree.parse raises XMLSyntaxError).  original is the text of
\* .//meta/source/original (<<>> when the node is absent: E stands for
\* English, F for French), s the texts of the .//s nodes.
XmlBytes(syntax, original, s) == [syntax |-> syntax, original |-> original, s |-> s]

ZipRead(xml_file) ==
    CASE xml_file = Path(7, 1, "xml") ->
            XmlBytes("ok", <<<<"E">>>>, << <<" ", "A", "a">>, <<"A", "a">>, <<" ">>, <<"a">> >>)
      [] xml_file = Path(7, 2, "xml") ->
            XmlBytes("fatal", <<>>, <<>>)
      [] xml_file = Path(7, 3, "xml") ->
            XmlBytes("partial", <<<<"F", ",", " ", "E">>>>, << <<"A", "A">>, <<"A", "A">> >>)
      [] xml_file = Path(9, 5, "xml") ->
            XmlBytes("ok", <<>>, << <<" ">>, <<" ", " ">> >>)
      [] OTHER ->
            XmlBytes("fatal", <<>>, <<>>)

\* str order of two paths "<imdb_id>/<doc_id>.<ext>"
PathLess(p, q) ==
    \/ p.imdb_id < q.imdb_id
    \/ p.imdb_id = q.imdb_id /\ p.doc_id < q.doc_id
    \/ p.imdb_id = q.imdb_id /\ p.doc_id = q.doc_id /\ p.ext = "txt" /\ q.ext = "xml"

\* sorted(list(paths)), by insertion
RECURSIVE insert(_, _)
insert(p, done) ==
    IF done = <<>> THEN <<p>>
    ELSE IF PathLess(p, Head(done)) THEN <<p>> \o done
    ELSE <<Head(done)>> \o insert(p, Tail(done))

RECURSIVE sorted(_)
sorted(paths) ==
    IF paths = <<>> THEN <<>> ELSE insert(Head(paths), sorted(Tail(paths)))

\* xml_path.split("/")[-2]
get_imdb_id(xml_path) == xml_path.imdb_id

\* (next(group) for imdb_id, group in groupby(xml_paths, key=get_imdb_id)):
\* the first path of each run of consecutive paths with one imdb_id
RECURSIVE first_of_groups(_)
first_of_groups(xml_paths) ==
    IF Len(xml_paths) <= 1 THEN xml_paths
    ELSE LET rest == first_of_groups(Tail(xml_paths)) IN
         IF get_imdb_id(xml_paths[1]) = get_imdb_id(xml_paths[2])
         THEN <<xml_paths[1]>> \o Tail(rest)
         ELSE <<xml_paths[1]>> \o rest

\* ZippedSubtitles.list_xml_files over the archive's namelist
list_xml_files(names, distinct) ==
    LET xml_paths == SelectSeq(names, LAMBDA x : x.ext = "xml") IN
    sorted(IF distinct THEN first_of_groups(xml_paths) ELSE xml_paths)

\* ZipFile(path): "" when the container opens, else the exception raised
ZipFile_lenient(container) == ""

ZipFile(container) ==
    CASE container = "zip" -> ""
      [] container = "missing" -> "FileNotFoundError"
      [] OTHER -> "BadZipFile"

---------------------------------------------------------------------------
(* languages.py and the langcodes resolver.                                *)

\* get_language_code(name, macro=True): the code of a language name, ""
\* when the name resolves to no language
get_language_code(name, macro) ==
    CASE name = <<"E">> -> "en"
      [] name = <<"F">> -> "fr"
      [] OTHER -> ""

\* The codes ZippedSubtitles.language_code may give for an archive stem
StemCodes == {"", "en", "fr"}

---------------------------------------------------------------------------
(* zipped.py: SubtitleXML                                                  *)

\* SubtitleXML.__init__: the parsed tree; on XMLSyntaxError the tree of
\* "<document></document>"
SubtitleXML(xml_bytes) ==
    IF xml_bytes.syntax = "fatal"
    THEN [original |-> <<>>, s |-> <<>>]
    ELSE [original |-> xml_bytes.original, s |-> xml_bytes.s]

\* SubtitleXML.get_lines
get_lines(subtitle_xml, dedup) ==
    LET lines == strip_whitespaces(subtitle_xml.s) IN
    IF dedup THEN deduplicate_consecutive(lines) ELSE lines

\* text.split(",")[0]
RECURSIVE split_comma_first(_)
split_comma_first(text) ==
    IF text = <<>> \/ Head(text) = "," THEN <<>>
    ELSE <<Head(text)>> \o split_comma_first(Tail(text))

\* SubtitleXML.original
original(subtitle_xml) ==
    IF subtitle_xml.original = <<>> THEN <<>>
    ELSE strip(split_comma_first(subtitle_xml.original[1]))

\* SubtitleXML.language_code
language_code(subtitle_xml) == get_language_code(original(subtitle_xml), TRUE)

---------------------------------------------------------------------------
(* zipped.py: ZippedSubtitles                                              *)

\* get_subtitle of _iter_batch_xml_files: xml_file[:-4].split("/")[-2:]
\* and the entry's bytes
get_subtitle(xml_file) ==
    [imdb_id |-> xml_file.imdb_id, doc_id |-> xml_file.doc_id,
     xml_bytes |-> ZipRead(xml_file)]

\* The truth value Python gives origin_lang: None and "" are falsy
truthy(lang) == lang \notin {"None", ""}

\* A loop body that extracts the lines before it tests the language
parse_entry_run_eager(entry, lang, cased, dedup) ==
    LET subtitle_xml == SubtitleXML(entry.xml_bytes)
        lines == get_lines(subtitle_xml, dedup)
        built == << [op |-> "SubtitleXML"], [op |-> "get_lines", lines |-> lines] >>
        tested == IF truthy(lang)
                  THEN Append(built, [op |-> "language_code",
                                      code |-> language_code(subtitle_xml)])
                  ELSE built
    IN  IF truthy(lang) /\ language_code(subtitle_xml) # lang
        THEN [calls |-> tested, result |-> <<>>]
        ELSE IF cased /\ ~is_cased(join(<<" ">>, lines))
        THEN [calls |-> Append(tested, [op |-> "is_cased",
                                        text |-> join(<<" ">>, lines)]),
              result |-> <<>>]
        ELSE [calls |-> (IF cased
                         THEN Append(tested, [op |-> "is_cased",
                                              text |-> join(<<" ">>, lines)])
                         ELSE tested)
                        \o << [op |-> "append", lines |-> lines] >>,
              result |-> <<[imdb_id |-> entry.imdb_id, doc_id |-> entry.doc_id,
                            lines |-> lines]>>]

\* One iteration of parse_batch's loop: the calls it makes, in order, and
\* the tuples it appends to result.  "origin_lang and ..." evaluates
\* language_code only for a truthy origin_lang, "cased_only and ..."
\* evaluates is_cased only when cased_only is set.
parse_entry_run(entry, lang, cased, dedup) ==
    LET subtitle_xml == SubtitleXML(entry.xml_bytes)
        built == << [op |-> "SubtitleXML"] >>
        tested == IF truthy(lang)
                  THEN Append(built, [op |-> "language_code",
                                      code |-> language_code(subtitle_xml)])
                  ELSE built
    IN  IF truthy(lang) /\ language_code(subtitle_xml) # lang
        THEN [calls |-> tested, result |-> <<>>]
        ELSE LET lines == get_lines(subtitle_xml, dedup)
                 extracted == Append(tested, [op |-> "get_lines", lines |-> lines])
                 text == join(<<" ">>, lines)
                 cased_tested == IF cased
                                 THEN Append(extracted, [op |-> "is_cased",
                                                         text |-> text])
                                 ELSE extracted
             IN  IF cased /\ ~is_cased(text)
                 THEN [calls |-> cased_tested, result |-> <<>>]
                 ELSE [calls |-> Append(cased_tested,
                                        [op |-> "append", lines |-> lines]),
                       result |-> <<[imdb_id |-> entry.imdb_id,
                                     doc_id |-> entry.doc_id,
                                     lines |-> lines]>>]

\* The tuples one iteration of parse_batch's loop appends to result
parse_entry(entry, lang, cased, dedup) ==
    parse_entry_run(entry, lang, cased, dedup).result

\* A loop that puts each surviving tuple in front of the earlier ones
RECURSIVE parse_batch_prepending(_, _, _, _)
parse_batch_prepending(batch, lang, cased, dedup) ==
    IF batch = <<>> THEN <<>>
    ELSE parse_batch_prepending(Tail(batch), lang, cased, dedup)
         \o parse_entry(Head(batch), lang, cased, dedup)

\* parse_batch of iter_xml_files
RECURSIVE parse_batch(_, _, _, _)
parse_batch(batch, lang, cased, dedup) ==
    IF batch = <<>> THEN <<>>
    ELSE parse_entry(Head(batch), lang, cased, dedup)
         \o parse_batch(Tail(batch), lang, cased, dedup)

\* Python's floor division n // d, d # 0
FloorDiv(n, d) == IF d > 0 THEN n \div d ELSE (0 - n) \div (0 - d)

\* The batches _iter_batch_xml_files yields over a listing
batches_of(files, size) ==
    LET chunks == iter_batch(files, size) IN
    [k \in DOMAIN chunks |->
        [i \in DOMAIN chunks[k] |-> get_subtitle(chunks[k][i])]]

---------------------------------------------------------------------------
(* A run of extract_subtitles over ZippedSubtitles.iter_xml_files.         *)

\* The archives: up to MaxEntries distinct entries, in any storage order
Archives ==
    {names \in UNION {[1..n -> PathUniverse] : n \in 0..MaxEntries} :
        \A i, j \in DOMAIN names : i # j => names[i] # names[j]}

NoCall == [done |-> FALSE]

Init ==
    /\ archive \in {"zip", "missing", "not_zip"}
    /\ namelist \in IF archive = "zip" THEN Archives ELSE {<<>>}
    /\ distinct_title \in BOOLEAN
    /\ original_only \in BOOLEAN
    /\ cased_only \in BOOLEAN
    /\ deduplicate \in BOOLEAN
    /\ batch_size \in (0 - 1)..MaxBatchSize
    /\ nb_workers \in 0..MaxWorkers
    /\ pc = "idle"
    /\ error = ""
    /\ origin_lang = "None"
    /\ nb_xml_files = 0
    /\ nb_batches = 0
    /\ pool = 0
    /\ xml_files = <<>>
    /\ gen = "created"
    /\ fed = 0
    /\ taskqueue = <<>>
    /\ workers = {}
    /\ outqueue = <<>>
    /\ result_batch = <<>>
    /\ pbar = 0
    /\ emitted = <<>>
    /\ written = {}
    /\ collected = {}
    /\ call = "none"
    /\ arg = <<>>
    /\ ret = NoCall

config_vars == <<archive, namelist, distinct_title, original_only,
                 cased_only, deduplicate, batch_size, nb_workers>>
pure_vars == <<call, arg, ret>>

\* iter_xml_files up to the creation of the pool: origin_lang is resolved
\* from the archive's stem when original_only is set, count_xml_files opens
\* the archive, nb_batches divides by batch_size, then mp.Pool is created
\* and imap_unordered is given the batch generator.
iter_xml_files_start ==
    /\ pc = "idle"
    /\ origin_lang' \in IF original_only THEN StemCodes ELSE {"None"}
    /\ IF ZipFile(archive) # ""
       THEN /\ pc' = "raised"
            /\ error' = ZipFile(archive)
            /\ UNCHANGED <<nb_xml_files, nb_batches, pool, workers>>
       ELSE /\ nb_xml_files' = Len(list_xml_files(namelist, distinct_title))
            /\ IF batch_size = 0
               THEN /\ pc' = "raised"
                    /\ error' = "ZeroDivisionError"
                    /\ UNCHANGED <<nb_batches, pool, workers>>
               ELSE /\ nb_batches' = FloorDiv(nb_xml_files', batch_size) + 1
                    /\ pool' = IF nb_workers < 1 THEN CpuCount ELSE nb_workers
                    /\ workers' = {}
                    /\ pc' = "running"
                    /\ error' = ""
    /\ UNCHANGED <<config_vars, collected, xml_files, gen, fed, taskqueue, outqueue,
                   result_batch, pbar, emitted, written, pure_vars>>

\* A generator that lists the archive without passing distinct_title on
iter_batch_xml_files_next_all_titles ==
    /\ pc = "running"
    /\ gen # "exhausted"
    /\ xml_files' = IF gen = "created"
                    THEN list_xml_files(namelist, FALSE)
                    ELSE xml_files
    /\ LET batches == batches_of(xml_files', batch_size) IN
       IF fed < Len(batches)
       THEN /\ taskqueue' = Append(taskqueue,
                                  [index |-> fed + 1, batch |-> batches[fed + 1]])
            /\ fed' = fed + 1
            /\ gen' = "suspended"
       ELSE /\ gen' = "exhausted"
            /\ UNCHANGED <<taskqueue, fed>>
    /\ UNCHANGED <<config_vars, collected, pc, error, origin_lang, nb_xml_files,
                   nb_batches, pool, workers, outqueue, result_batch, pbar,
                   emitted, written, pure_vars>>

\* The pool's task feeder asks _iter_batch_xml_files for its next batch; the
\* first call lists the archive.  The batch is queued for the workers.
iter_batch_xml_files_next ==
    /\ pc = "running"
    /\ gen # "exhausted"
    /\ xml_files' = IF gen = "created"
                    THEN list_xml_files(namelist, distinct_title)
                    ELSE xml_files
    /\ LET batches == batches_of(xml_files', batch_size) IN
       IF fed < Len(batches)
       THEN /\ taskqueue' = Append(taskqueue,
                                  [index |-> fed + 1, batch |-> batches[fed + 1]])
            /\ fed' = fed + 1
            /\ gen' = "suspended"
       ELSE /\ gen' = "exhausted"
            /\ UNCHANGED <<taskqueue, fed>>
    /\ UNCHANGED <<config_vars, collected, pc, error, origin_lang, nb_xml_files, nb_batches, pool,
                   workers, outqueue, result_batch, pbar, emitted, written,
                   pure_vars>>

\* An idle worker process takes the next queued batch.  The processes are
\* interchangeable, so only the set of batches they hold is kept.
worker_take ==
    /\ pc = "running"
    /\ Cardinality(workers) < pool
    /\ taskqueue # <<>>
    /\ workers' = workers \cup {Head(taskqueue)}
    /\ taskqueue' = Tail(taskqueue)
    /\ UNCHANGED <<config_vars, collected, pc, error, origin_lang, nb_xml_files, nb_batches, pool,
                   xml_files, gen, fed, outqueue, result_batch, pbar, emitted,
                   written, pure_vars>>

\* A worker process that ends without handing its result over
worker_parse_batch_lost(task) ==
    /\ pc = "running"
    /\ task \in workers
    /\ workers' = workers \ {task}
    /\ UNCHANGED <<config_vars, collected, pc, error, origin_lang, nb_xml_files,
                   nb_batches, pool, xml_files, gen, fed, taskqueue, outqueue,
                   result_batch, pbar, emitted, written, pure_vars>>

\* A worker process returns parse_batch of the batch it holds.
worker_parse_batch(task) ==
    /\ pc = "running"
    /\ task \in workers
    /\ outqueue' = Append(outqueue,
            [index |-> task.index,
             result |-> parse_batch(task.batch, origin_lang, cased_only,
                                    deduplicate)])
    /\ workers' = workers \ {task}
    /\ UNCHANGED <<config_vars, collected, pc, error, origin_lang, nb_xml_files, nb_batches, pool,
                   xml_files, gen, fed, taskqueue, result_batch, pbar, emitted,
                   written, pure_vars>>

\* for result_batch in pool.imap_unordered(...): the next completed result
imap_unordered_next ==
    /\ pc = "running"
    /\ result_batch = <<>>
    /\ outqueue # <<>>
    /\ result_batch' = <<Head(outqueue)>>
    /\ outqueue' = Tail(outqueue)
    /\ collected' = collected \cup {Head(outqueue).index}
    /\ UNCHANGED <<config_vars, pc, error, origin_lang, nb_xml_files, nb_batches, pool,
                   xml_files, gen, fed, taskqueue, workers, pbar, emitted,
                   written, pure_vars>>

\* yield (imdb_id, doc_id, lines); extract_subtitles writes the tuple's file
yield_tuple ==
    /\ pc = "running"
    /\ result_batch # <<>>
    /\ result_batch[1].result # <<>>
    /\ LET t == Head(result_batch[1].result) IN
       /\ emitted' = Append(emitted, [imdb_id |-> t.imdb_id, doc_id |-> t.doc_id,
                                      lines |-> t.lines,
                                      index |-> result_batch[1].index])
       /\ written' = written \cup {<<t.imdb_id, t.doc_id>>}
    /\ result_batch' = <<[result_batch[1] EXCEPT !.result = Tail(@)]>>
    /\ UNCHANGED <<config_vars, collected, pc, error, origin_lang, nb_xml_files, nb_batches, pool,
                   xml_files, gen, fed, taskqueue, workers, outqueue, pbar,
                   pure_vars>>

\* pbar.update(1) once the result's tuples are yielded
pbar_update ==
    /\ pc = "running"
    /\ result_batch # <<>>
    /\ result_batch[1].result = <<>>
    /\ pbar' = pbar + 1
    /\ result_batch' = <<>>
    /\ UNCHANGED <<config_vars, collected, pc, error, origin_lang, nb_xml_files, nb_batches, pool,
                   xml_files, gen, fed, taskqueue, workers, outqueue, emitted,
                   written, pure_vars>>

\* imap_unordered raises StopIteration: every task has been fed and every
\* result handed over
imap_exhausted_early ==
    /\ gen = "exhausted"
    /\ outqueue = <<>>

imap_exhausted ==
    /\ gen = "exhausted"
    /\ taskqueue = <<>>
    /\ workers = {}
    /\ outqueue = <<>>

\* The for loop ends, the pool and the progress bar are closed
iter_xml_files_end ==
    /\ pc = "running"
    /\ result_batch = <<>>
    /\ imap_exhausted
    /\ pc' = "done"
    /\ UNCHANGED <<config_vars, collected, error, origin_lang, nb_xml_files, nb_batches, pool,
                   xml_files, gen, fed, taskqueue, workers, outqueue,
                   result_batch, pbar, emitted, written, pure_vars>>

Next ==
    \/ iter_xml_files_start
    \/ iter_batch_xml_files_next
    \/ worker_take
    \/ \E task \in workers : worker_parse_batch(task)
    \/ imap_unordered_next
    \/ yield_tuple
    \/ pbar_update
    \/ iter_xml_files_end

Spec == Init /\ [][Next]_vars

\* No process of the pool hangs, the pool's task feeder thread runs, and the
\* consumer keeps calling next() on the generator
Fairness ==
    /\ WF_vars(iter_xml_files_start)
    /\ WF_vars(iter_batch_xml_files_next)
    /\ WF_vars(worker_take)
    /\ WF_vars(\E task \in workers : worker_parse_batch(task))
    /\ WF_vars(imap_unordered_next)
    /\ WF_vars(yield_tuple)
    /\ WF_vars(pbar_update)
    /\ WF_vars(iter_xml_files_end)

\* The runs followed to their end: whether a run ends depends on the
\* archive, the number of entries, batch_size, nb_workers and on results
\* being empty or not, which cased_only alone already varies
InitFair ==
    /\ Init
    /\ namelist = sorted(namelist)
    /\ ~distinct_title
    /\ ~original_only
    /\ ~deduplicate

FairSpec == InitFair /\ [][Next]_vars /\ Fairness

---------------------------------------------------------------------------
(* Calls of the pure helpers of utils.py on bounded inputs.                *)

Strings == UNION {[1..n -> Chars] : n \in 0..MaxStrLen}

\* The texts of .//s nodes: blank, padded, with inner space, differing in case
RawLines ==
    {<<>>, <<" ">>, <<"a">>, <<" ", "a">>, <<"a", " ">>, <<"a", " ", "a">>,
     <<"A">>}

GetLinesArgs ==
    {[s |-> raw, dedup |-> d] :
        raw \in UNION {[1..n -> RawLines] : n \in 0..MaxLines}, d \in BOOLEAN}

\* Batches of distinct entries with the values parse_batch closes over
ParseBatchArgs ==
    {[batch |-> [i \in DOMAIN paths |-> get_subtitle(paths[i])],
      origin_lang |-> lang, cased_only |-> cased, deduplicate |-> dedup] :
        paths \in {names \in UNION {[1..n -> {p \in PathUniverse : p.ext = "xml"}] :
                                        n \in 0..MaxBatchSize} :
                      \A i, j \in DOMAIN names : i # j => names[i] # names[j]},
        lang \in {"None"} \cup StemCodes, cased \in BOOLEAN, dedup \in BOOLEAN}

IterBatchArgs ==
    {[iterable |-> [i \in 1..n |-> i], batch_size |-> b] :
        n \in 0..MaxItems, b \in 1..(MaxItems + 1)}

InitPure ==
    /\ archive = "zip"
    /\ namelist = <<>>
    /\ distinct_title = FALSE
    /\ original_only = FALSE
    /\ cased_only = FALSE
    /\ deduplicate = FALSE
    /\ batch_size = 1
    /\ nb_workers = 1
    /\ pc = "off"
    /\ error = ""
    /\ origin_lang = "None"
    /\ nb_xml_files = 0
    /\ nb_batches = 0
    /\ pool = 0
    /\ xml_files = <<>>
    /\ gen = "created"
    /\ fed = 0
    /\ taskqueue = <<>>
    /\ workers = {}
    /\ outqueue = <<>>
    /\ result_batch = <<>>
    /\ pbar = 0
    /\ emitted = <<>>
    /\ written = {}
    /\ collected = {}
    /\ ret = NoCall
    /\ \/ call = "is_cased" /\ arg \in Strings
       \/ call = "iter_batch" /\ arg \in IterBatchArgs
       \/ call = "get_lines" /\ arg \in GetLinesArgs
       \/ call = "parse_batch" /\ arg \in ParseBatchArgs

call_is_cased ==
    /\ call = "is_cased"
    /\ ~ret.done
    /\ ret' = [done |-> TRUE, value |-> is_cased(arg)]
    /\ UNCHANGED <<engine_vars, call, arg>>

call_iter_batch ==
    /\ call = "iter_batch"
    /\ ~ret.done
    /\ ret' = [done |-> TRUE, value |-> iter_batch(arg.iterable, arg.batch_size)]
    /\ UNCHANGED <<engine_vars, call, arg>>

\* SubtitleXML.get_lines on a tree whose .//s texts are arg.s
call_get_lines ==
    /\ call = "get_lines"
    /\ ~ret.done
    /\ ret' = [done |-> TRUE,
               value |-> get_lines([original |-> <<>>, s |-> arg.s], arg.dedup)]
    /\ UNCHANGED <<engine_vars, call, arg>>

\* parse_batch on one batch: its result and the calls made for each entry
call_parse_batch ==
    /\ call = "parse_batch"
    /\ ~ret.done
    /\ ret' = [done |-> TRUE,
               value |-> [result |-> parse_batch(arg.batch, arg.origin_lang,
                                                 arg.cased_only, arg.deduplicate),
                          calls |-> [i \in DOMAIN arg.batch |->
                                        parse_entry_run(arg.batch[i], arg.origin_lang,
                                                        arg.cased_only,
                                                        arg.deduplicate).calls]]]
    /\ UNCHANGED <<engine_vars, call, arg>>

NextPure ==
    \/ call_is_cased
    \/ call_iter_batch
    \/ call_get_lines
    \/ call_parse_batch

SpecPure == InitPure /\ [][NextPure]_vars

---------------------------------------------------------------------------
(* Properties.                                                             *)

RECURSIVE concat(_)
concat(seqs) == IF seqs = <<>> THEN <<>> ELSE Head(seqs) \o concat(Tail(seqs))

CeilDiv(n, b) == (n + b - 1) \div b

PairsOf(tuples) == {<<tuples[i].imdb_id, tuples[i].doc_id>> : i \in DOMAIN tuples}

\* The payload an emitted tuple was read from
SourceOf(t) == ZipRead(Path(t.imdb_id, t.doc_id, "xml"))

\* A positive batch size and a positive worker count
ValidConfig == batch_size >= 1 /\ nb_workers >= 1

\* C1: with distinct_title, the listing holds exactly one entry per title,
\* the first of that title in the sorted list of all XML paths, whatever
\* the storage order of the archive.
C1_OnePerTitleFirstSorted ==
    (ValidConfig /\ pc = "running" /\ gen # "created" /\ distinct_title) =>
        LET all == list_xml_files(namelist, FALSE)
            titles == {all[i].imdb_id : i \in DOMAIN all}
        IN  /\ Len(xml_files) = Cardinality(titles)
            /\ \A t \in titles :
                  \E i \in DOMAIN xml_files, j \in DOMAIN all :
                      /\ xml_files[i] = all[j]
                      /\ all[j].imdb_id = t
                      /\ \A k \in 1..(j - 1) : all[k].imdb_id # t

\* C2: the batches of iter_batch partition the list: their concatenation
\* is the list, each holds between 1 and B entries, all but the last hold
\* exactly B, and there are ceil(N/B) of them.
C2_BatchesPartition ==
    (call = "iter_batch" /\ ret.done) =>
        LET batches == ret.value
            B == arg.batch_size
            N == Len(arg.iterable)
        IN  /\ concat(batches) = arg.iterable
            /\ \A k \in DOMAIN batches : Len(batches[k]) >= 1 /\ Len(batches[k]) <= B
            /\ \A k \in 1..(Len(batches) - 1) : Len(batches[k]) = B
            /\ Len(batches) = CeilDiv(N, B)

C2_Witness ==
    /\ call = "iter_batch"
    /\ ret.done
    /\ Len(ret.value) = 3
    /\ Len(ret.value[3]) = 1
    /\ arg.batch_size = 2

\* The survivors of the listing parsed as one batch, in listing order
Survivors ==
    parse_batch(batches_of(list_xml_files(namelist, distinct_title), 0 - 1)[1],
                origin_lang, cased_only, deduplicate)

ExpectedPairs ==
    IF list_xml_files(namelist, distinct_title) = <<>> THEN {}
    ELSE PairsOf(Survivors)

\* C3: at the end of a run the set of emitted (imdb_id, doc_id) pairs is
\* the set of survivors of the archive under the filters, whatever the
\* number of workers and the order in which batches completed, and no
\* pair was emitted twice.
C3_SameSetAnyInterleaving ==
    pc = "done" =>
        /\ PairsOf(emitted) = ExpectedPairs
        /\ Cardinality(PairsOf(emitted)) = Len(emitted)

C3_Witness ==
    /\ pc = "done"
    /\ pool = 2
    /\ Len(emitted) >= 2
    /\ emitted[1].index > emitted[2].index

\* C4: a malformed entry raises no error and no tuple is emitted for it.
C4_MalformedNeverEmitted ==
    ValidConfig =>
        /\ error # "XMLSyntaxError"
        /\ \A i \in DOMAIN emitted : SourceOf(emitted[i]).syntax = "ok"

\* C5: with cased_only, a document whose line sequence is empty is never
\* emitted.
C5_EmptyLinesRejected ==
    (ValidConfig /\ cased_only) =>
        \A i \in DOMAIN emitted :
            SourceOf(emitted[i]).syntax = "ok" => emitted[i].lines # <<>>

\* C6: is_cased is False for an all-uppercase string, an all-lowercase
\* string and a string without letters, and True for a string with both an
\* uppercase and a lowercase letter.
C6_IsCasedTable ==
    (call = "is_cased" /\ ret.done) =>
        LET hasUpper == \E i \in DOMAIN arg : arg[i] \in UpperChars
            hasLower == \E i \in DOMAIN arg : arg[i] \in LowerChars
        IN  ret.value = (hasUpper /\ hasLower)

C8_InvalidConfigFatal ==
    (batch_size < 1 \/ nb_workers < 1) =>
        /\ pc \in {"idle", "raised"}
        /\ pool = 0
        /\ fed = 0
        /\ emitted = <<>>

\* C9: when the path is missing or no ZIP container, the run ends with the
\* error of opening it, raised while the catalog is listed: no pool is
\* created, no batch dispatched, no tuple emitted and no file written.
C9_BadArchiveFatal ==
    archive # "zip" =>
        /\ pc \in {"idle", "raised"}
        /\ pc = "raised" => error \in {"FileNotFoundError", "BadZipFile"}
        /\ pool = 0
        /\ gen = "created"
        /\ fed = 0
        /\ workers = {}
        /\ emitted = <<>>
        /\ written = {}

C9_Witness ==
    /\ archive = "not_zip"
    /\ pc = "raised"
    /\ error = "BadZipFile"

\* C10: the batch count computed for the progress bar is ceil(N/B), the
\* number of batches dispatched and collected in the run.
C10_BatchCountIsCeiling ==
    (pc \in {"running", "done"} /\ ValidConfig) =>
        /\ nb_batches = CeilDiv(nb_xml_files, batch_size)
        /\ pc = "done" => (nb_batches = fed /\ nb_batches = pbar)

\* A text without its leading and trailing whitespace
Trimmed(text) ==
    LET inked == {i \in DOMAIN text : text[i] \notin SpaceChars} IN
    IF inked = {} THEN <<>>
    ELSE LET first == CHOOSE i \in inked : \A j \in inked : i <= j
             last == CHOOSE i \in inked : \A j \in inked : j <= i
         IN  SubSeq(text, first, last)

\* The elements of seq at the positions of keep, in order
AtPositions(seq, keep) ==
    [k \in 1..Cardinality(keep) |->
        seq[CHOOSE i \in keep : Cardinality({j \in keep : j < i}) = k - 1]]

\* C11: get_lines returns the texts in order, each trimmed, the blank ones
\* dropped; with dedup each run of adjacent equal lines of that sequence is
\* reduced to its first line and repeats that are not adjacent stay.  So
\* every line is non-empty and trimmed and, with dedup, no two adjacent
\* lines are equal.
C11_GetLinesTrimmedDeduped ==
    (call = "get_lines" /\ ret.done) =>
        LET trimmed == [i \in DOMAIN arg.s |-> Trimmed(arg.s[i])]
            kept == AtPositions(trimmed, {i \in DOMAIN trimmed : trimmed[i] # <<>>})
            heads == {i \in DOMAIN kept : i = 1 \/ kept[i] # kept[i - 1]}
            lines == ret.value
        IN  /\ lines = IF arg.dedup THEN AtPositions(kept, heads) ELSE kept
            /\ \A i \in DOMAIN lines :
                    /\ lines[i] # <<>>
                    /\ lines[i][1] \notin SpaceChars
                    /\ lines[i][Len(lines[i])] \notin SpaceChars
            /\ arg.dedup => \A i \in 1..(Len(lines) - 1) : lines[i] # lines[i + 1]

\* Padded texts a, a, a blank, A, a: the run of a collapses across the
\* padding, the later a stays
C11_Witness ==
    /\ call = "get_lines"
    /\ ret.done
    /\ arg.dedup
    /\ arg.s = << <<" ", "a">>, <<"a", " ">>, <<"A">>, <<"a">> >>
    /\ ret.value = << <<"a">>, <<"A">>, <<"a">> >>

\* The place of an emitted tuple's entry in the sorted listing
CatalogPosition(t) ==
    CHOOSE p \in DOMAIN xml_files : xml_files[p] = Path(t.imdb_id, t.doc_id, "xml")

\* C12: whatever the order in which the workers complete, the tuples of one
\* batch are emitted next to each other, never mixed with those of another
\* batch, and in the order their entries have in the sorted listing.
C12_BatchContiguousInCatalogOrder ==
    /\ \A p, q \in DOMAIN xml_files : p < q => PathLess(xml_files[p], xml_files[q])
    /\ \A i, j \in DOMAIN emitted :
          (i < j /\ emitted[i].index = emitted[j].index) =>
              /\ \A k \in i..j : emitted[k].index = emitted[i].index
              /\ CatalogPosition(emitted[i]) < CatalogPosition(emitted[j])

\* The second batch completes first: its tuple is emitted before the two
\* tuples of the first batch
C12_Witness ==
    /\ pc = "done"
    /\ Len(emitted) = 3
    /\ emitted[1].index = 2
    /\ emitted[2].index = 1
    /\ emitted[3].index = 1

\* C13: when no worker hangs and the consumer keeps iterating, every run
\* ends, and a run whose pool was started ends in Done; at Done every batch
\* pulled from the generator has been collected exactly once, no worker
\* holds a batch, and after Done no further tuple is emitted.
C13_EventuallyDone ==
    /\ (pc = "idle") ~> (pc = "done" \/ (pc = "raised" /\ pool = 0))
    /\ (pc = "running") ~> (pc = "done")
    /\ [](pc = "done" =>
            /\ collected = 1..fed
            /\ pbar = fed
            /\ Cardinality(collected) = pbar
            /\ workers = {}
            /\ taskqueue = <<>>
            /\ outqueue = <<>>
            /\ result_batch = <<>>)
    /\ [][pc = "done" => emitted' = emitted /\ pc' = "done"]_vars

\* Done with two workers, two batches collected and a tuple emitted
C13_Witness ==
    /\ pc = "done"
    /\ pool = 2
    /\ fed = 2
    /\ collected = {1, 2}
    /\ emitted # <<>>

\* The place of a call in the chain of parse_batch's loop body
ChainRank(op) ==
    CASE op = "SubtitleXML" -> 1
      [] op = "language_code" -> 2
      [] op = "get_lines" -> 3
      [] op = "is_cased" -> 4
      [] op = "append" -> 5

\* C14: in a worker each entry meets the original-language test, then the
\* extraction of its lines, then the casing test, and the first failure
\* ends its turn: an entry the language test rejects has neither its lines
\* extracted nor its casing tested, the casing test reads the very lines
\* that would be emitted, and an entry is emitted only when it passed every
\* test in force (the language test for a non-empty origin_lang, the
\* casing test under cased_only).
C14_FilterChainOrder ==
    (call = "parse_batch" /\ ret.done) =>
        LET lang_on == truthy(arg.origin_lang)
            Doc(i) == SubtitleXML(arg.batch[i].xml_bytes)
            Calls(i) == ret.value.calls[i]
            Has(i, op) == \E k \in DOMAIN Calls(i) : Calls(i)[k].op = op
            Passes(i) ==
                /\ lang_on => language_code(Doc(i)) = arg.origin_lang
                /\ arg.cased_only =>
                       is_cased(join(<<" ">>, get_lines(Doc(i), arg.deduplicate)))
            survivors == {i \in DOMAIN arg.batch : Has(i, "append")}
        IN  /\ \A i \in DOMAIN arg.batch :
                  LET c == Calls(i) IN
                  /\ c[1].op = "SubtitleXML"
                  /\ \A k \in 1..(Len(c) - 1) :
                         ChainRank(c[k].op) < ChainRank(c[k + 1].op)
                  /\ lang_on <=> Has(i, "language_code")
                  /\ (lang_on /\ language_code(Doc(i)) # arg.origin_lang) =>
                         /\ ~Has(i, "get_lines")
                         /\ ~Has(i, "is_cased")
                         /\ ~Has(i, "append")
                  /\ Has(i, "is_cased") => arg.cased_only
                  /\ (arg.cased_only /\ Has(i, "get_lines")) => Has(i, "is_cased")
                  /\ \A k \in DOMAIN c :
                         /\ c[k].op = "get_lines" =>
                                c[k].lines = get_lines(Doc(i), arg.deduplicate)
                         /\ c[k].op = "is_cased" =>
                                /\ c[k - 1].op = "get_lines"
                                /\ c[k].text = join(<<" ">>, c[k - 1].lines)
                         /\ c[k].op = "append" =>
                                /\ Has(i, "get_lines")
                                /\ c[k].lines = get_lines(Doc(i), arg.deduplicate)
                  /\ Has(i, "append") <=> Passes(i)
            /\ ret.value.result =
                   AtPositions([i \in DOMAIN arg.batch |->
                                   [imdb_id |-> arg.batch[i].imdb_id,
                                    doc_id |-> arg.batch[i].doc_id,
                                    lines |-> get_lines(Doc(i), arg.deduplicate)]],
                               survivors)

\* Both tests in force with deduplication: the French document stops at the
\* language test, the English one goes through the whole chain
C14_Witness ==
    /\ call = "parse_batch"
    /\ ret.done
    /\ arg.origin_lang = "en"
    /\ arg.cased_only
    /\ arg.deduplicate
    /\ Len(arg.batch) = 2
    /\ Len(ret.value.calls[1]) = 2
    /\ Len(ret.value.calls[2]) = 5
    /\ Len(ret.value.result) = 1

\* The documents list_xml_files(distinct_title=True) selects
Selected == {list_xml_files(namelist, TRUE)[i] :
                i \in DOMAIN list_xml_files(namelist, TRUE)}

\* The entries read from the archive and handed to the pool so far
Dispatched ==
    LET tasks == {taskqueue[i] : i \in DOMAIN taskqueue} \cup workers IN
    UNION {{Path(t.batch[i].imdb_id, t.batch[i].doc_id, "xml") :
               i \in DOMAIN t.batch} : t \in tasks}

\* The entries of the results and of the tuples emitted so far
Returned ==
    LET results == {outqueue[i].result : i \in DOMAIN outqueue}
                   \cup {result_batch[i].result : i \in DOMAIN result_batch}
    IN  UNION {{Path(res[i].imdb_id, res[i].doc_id, "xml") : i \in DOMAIN res} :
                  res \in results}
        \cup {Path(emitted[i].imdb_id, emitted[i].doc_id, "xml") :
                  i \in DOMAIN emitted}

\* A document that parse_batch would keep under the run's filters
WouldPass(path) ==
    parse_entry(get_subtitle(path), origin_lang, cased_only, deduplicate) # <<>>

\* C15: with distinct_title and a content filter, the titles' documents are
\* chosen in the listing before any filter runs: only the documents that
\* list_xml_files(distinct_title=True) selects are read and dispatched, a
\* title whose selected documents the filters reject has no survivor even
\* when another of its documents would pass, and there are never more
\* survivors than selected entries.
C15_SelectionBeforeFilters ==
    (distinct_title /\ (original_only \/ cased_only) /\ pc \in {"running", "done"}) =>
        /\ Dispatched \subseteq Selected
        /\ Returned \subseteq Selected
        /\ Len(emitted) <= Cardinality(Selected)
        /\ pc = "done" =>
               \A title \in {p.imdb_id : p \in Selected} :
                   (\A p \in Selected : p.imdb_id = title => ~WouldPass(p)) =>
                       \A i \in DOMAIN emitted : emitted[i].imdb_id # title

\* A finished run where the selected document of a title was rejected,
\* another document of that title would have passed, and the title has no
\* survivor
C15_Witness ==
    /\ pc = "done"
    /\ distinct_title
    /\ original_only \/ cased_only
    /\ batch_size >= 1
    /\ \E p \in Selected :
          /\ ~WouldPass(p)
          /\ \E i \in DOMAIN namelist :
                /\ namelist[i].ext = "xml"
                /\ namelist[i].imdb_id = p.imdb_id
                /\ namelist[i] \notin Selected
                /\ WouldPass(namelist[i])
          /\ \A i \in DOMAIN emitted : emitted[i].imdb_id # p.imdb_id

====
